---------------------------- MODULE Spec2Model ----------------------------
(***************************************************************************)
(* Model of the laboRARE engine backend (backend/main.py and its helpers). *)
(* A request slot holds one inbound call: its input, the provider calls it *)
(* made, its response and, for the multi-step handlers (upload, streaming) *)
(* the position of the handler.  The provider is the environment: every    *)
(* SDK call either returns an object or raises, chosen nondeterministically*)
(***************************************************************************)
EXTENDS Integers, Sequences, FiniteSets, TLC

(* ----------------------------- bounds ---------------------------------- *)

\* number of request slots that may run concurrently
MaxSlots == 2

\* number of distinct names the temporary directory can hand out
NumPaths == 3

\* longest upstream stream (number of increments read before it must end)
MaxChunks == 3

\* longest message list of a conversation request
MaxMsgs == 3

(* ------------------------ program constants ---------------------------- *)

\* settings.max_file_size_mb
max_file_size_mb == 50

\* shortest identifier validate_file_id accepts
MinFileIdLen == 10

Slots == 1..MaxSlots

Paths == 1..NumPaths

(* ------------------------ python-level helpers ------------------------- *)

\* Optional[T]: <<>> is None, <<v>> is the value v
None == <<>>

Some(v) == <<v>>

\* getattr(obj, name, default)
getattr(obj, name, default) == IF name \in DOMAIN obj THEN obj[name] ELSE default

\* hasattr(obj, name)
hasattr(obj, name) == name \in DOMAIN obj

\* outcome of a call: a returned value or a raised exception
Ok(v) == [ok |-> TRUE, value |-> v]

Raise(e) == [ok |-> FALSE, err |-> e]

\* the AttributeError python raises on obj.name when name is absent
AttributeError(name) == [kind |-> "AttributeError", msg |-> "no attribute " \o name]

\* first name of the sequence names that obj lacks, <<>> when it has all
RECURSIVE FirstMissing(_, _)
FirstMissing(obj, names) ==
    IF names = <<>> THEN None
    ELSE IF ~hasattr(obj, Head(names)) THEN Some(Head(names))
    ELSE FirstMissing(obj, Tail(names))

(* ------------------------ provider behaviour --------------------------- *)

\* exceptions the SDK raises out of a provider call
ProviderErrors ==
    { [kind |-> "not_found", msg |-> "no such file"],
      [kind |-> "unavailable", msg |-> "service unavailable"] }

\* a provider file object carrying every attribute
FullFileObj ==
    [id |-> "file-12345", object |-> "file", bytes |-> 2097152,
     created_at |-> 1700000000, filename |-> "report.pdf", purpose |-> "ocr",
     sample_type |-> "pretrain", num_lines |-> 12, mimetype |-> "text/plain",
     source |-> "repository", signature |-> "sig", deleted |-> TRUE]

\* a provider file object carrying only the attributes read without default
MinimalFileObj ==
    [id |-> "file-12345", object |-> "file", created_at |-> 1700000000,
     filename |-> "report.pdf", purpose |-> "ocr"]

\* a provider file object lacking a required attribute
BrokenFileObj ==
    [object |-> "file", created_at |-> 1700000000,
     filename |-> "report.pdf", purpose |-> "ocr"]

FileObjs == {FullFileObj, MinimalFileObj, BrokenFileObj}

FileOutcomes == {Ok(o) : o \in FileObjs} \cup {Raise(e) : e \in ProviderErrors}

SignedUrl == "https://signed.example/doc"

SignedUrlOutcomes == {Ok([url |-> SignedUrl])} \cup {Raise(e) : e \in ProviderErrors}

\* responses of files.list: with and without a data attribute
ListObjs ==
    { [data |-> <<>>],
      [data |-> <<FullFileObj>>],
      [data |-> <<MinimalFileObj, FullFileObj>>],
      [data |-> <<FullFileObj, BrokenFileObj>>],
      [object |-> "list"] }

ListOutcomes == {Ok(o) : o \in ListObjs} \cup {Raise(e) : e \in ProviderErrors}

\* responses of files.delete
DeleteObjs == { [id |-> "file-12345", deleted |-> TRUE],
                [id |-> "file-12345", deleted |-> FALSE] }

DeleteOutcomes == {Ok(o) : o \in DeleteObjs} \cup {Raise(e) : e \in ProviderErrors}

(* --------------------------- request inputs ---------------------------- *)

FileIds == {"", "abc", "file-12345", "file-1234567"}

\* a path parameter is never empty: the empty path routes to another endpoint
PathFileIds == FileIds \ {""}

ExpiryHours == {None, Some(0), Some(24)}

DefaultModel == "mistral-small-latest"

\* fields of a request that an endpoint does not take
NoReq ==
    [ep |-> "", file_id |-> "", expiry_hours |-> None, filename |-> <<>>,
     size |-> 0, question |-> "", conversation_history |-> None,
     messages |-> <<>>, model |-> DefaultModel, include_image_base64 |-> FALSE]

NoResp == [status |-> 0, detail |-> "", body |-> <<>>]

\* raise HTTPException(status_code, detail)
HTTPException(status_code, detail) ==
    [status |-> status_code, detail |-> detail, body |-> <<>>]

\* a handler's return value, sent with status 200
Response(body) == [status |-> 200, detail |-> "", body |-> body]

NotInitialized == HTTPException(500, "mistral service not initialized")

(* ------------------------------- state --------------------------------- *)

VARIABLES
    mistral_service,   \* TRUE iff MistralService() was constructed at import
    fs,                \* names that exist in the temporary directory
    pc,                \* per slot: position of the handler
    req,               \* per slot: the request being (or last) handled
    resp,              \* per slot: the response of that request
    calls,             \* per slot: provider calls of that request, in order
    adapter,           \* per slot: arguments of the adapter Q&A operation
    tmp,               \* per slot: staging file of an upload (0: none)
    content,           \* per slot: length of the content an upload read, if any
    uploaded,          \* per slot: outcome of the provider upload
    upstream,          \* per slot: state of the provider's stream
    received,          \* per slot: increments read from the stream, in order
    events,            \* per slot: events yielded by generate(), in order
    gone               \* per slot: the consumer's disconnect was delivered

vars == <<mistral_service, fs, pc, req, resp, calls, adapter, tmp, content,
          uploaded, upstream, received, events, gone>>

uploadVars == <<tmp, content, uploaded>>

streamVars == <<upstream, received, events, gone>>

\* positions at which a slot holds no running handler
FreePcs == {"idle", "done", "gen_closed", "gen_error", "gen_abandoned"}

Free(r) == pc[r] \in FreePcs

\* MistralService.__init__: construction fails iff no api key is found
MistralService_init(api_key) == api_key # ""

Init ==
    /\ mistral_service \in {MistralService_init(k) : k \in {"", "test_key"}}
    /\ fs = {}
    /\ pc = [r \in Slots |-> "idle"]
    /\ req = [r \in Slots |-> NoReq]
    /\ resp = [r \in Slots |-> NoResp]
    /\ calls = [r \in Slots |-> <<>>]
    /\ adapter = [r \in Slots |-> None]
    /\ tmp = [r \in Slots |-> 0]
    /\ content = [r \in Slots |-> None]
    /\ uploaded = [r \in Slots |-> None]
    /\ upstream = [r \in Slots |-> "none"]
    /\ received = [r \in Slots |-> <<>>]
    /\ events = [r \in Slots |-> <<>>]
    /\ gone = [r \in Slots |-> FALSE]

\* a handler that runs to its end in one step: slot r now holds request rq,
\* its response rsp, the provider calls cs and the adapter arguments ad
Complete(r, rq, rsp, cs, ad) ==
    /\ pc' = [pc EXCEPT ![r] = "done"]
    /\ req' = [req EXCEPT ![r] = rq]
    /\ resp' = [resp EXCEPT ![r] = rsp]
    /\ calls' = [calls EXCEPT ![r] = cs]
    /\ adapter' = [adapter EXCEPT ![r] = ad]
    /\ tmp' = [tmp EXCEPT ![r] = 0]
    /\ content' = [content EXCEPT ![r] = None]
    /\ uploaded' = [uploaded EXCEPT ![r] = None]
    /\ upstream' = [upstream EXCEPT ![r] = "none"]
    /\ received' = [received EXCEPT ![r] = <<>>]
    /\ events' = [events EXCEPT ![r] = <<>>]
    /\ gone' = [gone EXCEPT ![r] = FALSE]
    /\ UNCHANGED <<mistral_service, fs>>

\* one provider (SDK) call with its arguments, what it returned and whether
\* it raised
Call(op, args, out) ==
    [op |-> op, args |-> args,
     returned |-> IF out.ok THEN Some(out.value) ELSE None,
     raised |-> IF out.ok THEN None ELSE Some(out.err)]

(* --------------------------- provider adapter -------------------------- *)
\* Each adapter operation yields the provider calls it made and its result.

MistralService_retrieve_file(file_id, out) ==
    [calls |-> <<Call("files.retrieve", [file_id |-> file_id], out)>>,
     result |-> out]

MistralService_get_signed_url(file_id, expiry_hours, out) ==
    [calls |-> <<Call("files.get_signed_url",
                      IF expiry_hours # None /\ expiry_hours[1] # 0
                      THEN [file_id |-> file_id, expiry |-> expiry_hours[1]]
                      ELSE [file_id |-> file_id],
                      out)>>,
     result |-> out]

MistralService_list_files(out) ==
    [calls |-> <<Call("files.list", <<>>, out)>>, result |-> out]

\* delete_file that calls the provider a second time
MistralService_delete_file_twice(file_id, out) ==
    [calls |-> <<Call("files.delete", [file_id |-> file_id], out),
                 Call("files.delete", [file_id |-> file_id], out)>>,
     result |-> out]

MistralService_delete_file(file_id, out) ==
    [calls |-> <<Call("files.delete", [file_id |-> file_id], out)>>,
     result |-> out]

(* ----------------------------- response mapping ------------------------ *)

\* attributes the file mappings read without a default, in evaluation order
RequiredFileAttrs == <<"id", "object", "created_at", "filename", "purpose">>

\* FileRetrieveResponse(...) built from a provider file object
FileRetrieveResponse(f) ==
    LET missing == FirstMissing(f, RequiredFileAttrs) IN
    IF missing # None THEN Raise(AttributeError(missing[1]))
    ELSE Ok([id |-> f.id,
             object |-> f.object,
             bytes |-> getattr(f, "bytes", 0),
             created_at |-> f.created_at,
             filename |-> f.filename,
             purpose |-> f.purpose,
             sample_type |-> getattr(f, "sample_type", "ocr_input"),
             num_lines |-> getattr(f, "num_lines", 0),
             mimetype |-> getattr(f, "mimetype", "application/pdf"),
             source |-> getattr(f, "source", "upload"),
             signature |-> getattr(f, "signature", ""),
             deleted |-> getattr(f, "deleted", FALSE)])

\* MapFileList that leaves out the entries whose mapping fails
RECURSIVE MapFileList_skip_failed(_, _)
MapFileList_skip_failed(data, file_list) ==
    IF data = <<>> THEN Ok(file_list)
    ELSE LET m == FileRetrieveResponse(Head(data)) IN
         MapFileList_skip_failed(Tail(data),
             IF m.ok THEN Append(file_list, m.value) ELSE file_list)

\* the loop of list_documents over files.data
RECURSIVE MapFileList(_, _)
MapFileList(data, file_list) ==
    IF data = <<>> THEN Ok(file_list)
    ELSE LET m == FileRetrieveResponse(Head(data)) IN
         IF ~m.ok THEN m
         ELSE MapFileList(Tail(data), Append(file_list, m.value))

(* ------------------------------ validation ----------------------------- *)
\* A filename is a sequence of characters; the absent filename is <<>>.

\* str.lower() on one character
LowerChar(c) ==
    CASE c = "A" -> "a" [] c = "P" -> "p" [] c = "D" -> "d" [] c = "F" -> "f"
      [] c = "T" -> "t" [] c = "X" -> "x" [] OTHER -> c

\* str.lower()
Lower(s) == [i \in 1..Len(s) |-> LowerChar(s[i])]

\* str.endswith(suffix)
EndsWith(s, suffix) ==
    /\ Len(s) >= Len(suffix)
    /\ SubSeq(s, Len(s) - Len(suffix) + 1, Len(s)) = suffix

\* validate_pdf comparing the extension without lower()
validate_pdf_case_sensitive(filename, max_size_mb) ==
    IF filename = <<>> THEN <<FALSE, "filename is required">>
    ELSE IF ~EndsWith(filename, <<".", "p", "d", "f">>)
    THEN <<FALSE, "only pdf files are supported">>
    ELSE <<TRUE, "">>

\* FileValidator.validate_pdf
validate_pdf(filename, max_size_mb) ==
    IF filename = <<>> THEN <<FALSE, "filename is required">>
    ELSE IF ~EndsWith(Lower(filename), <<".", "p", "d", "f">>)
    THEN <<FALSE, "only pdf files are supported">>
    ELSE <<TRUE, "">>

\* validate_file_size rejecting a content of exactly the maximum
validate_file_size_exclusive(content_len, max_size_mb) ==
    LET max_size_bytes == max_size_mb * 1024 * 1024 IN
    IF content_len >= max_size_bytes
    THEN <<FALSE, "file size exceeds " \o ToString(max_size_mb) \o "mb limit">>
    ELSE IF content_len = 0 THEN <<FALSE, "file is empty">>
    ELSE <<TRUE, "">>

\* FileValidator.validate_file_size, on the length of the content
validate_file_size(content_len, max_size_mb) ==
    LET max_size_bytes == max_size_mb * 1024 * 1024 IN
    IF content_len > max_size_bytes
    THEN <<FALSE, "file size exceeds " \o ToString(max_size_mb) \o "mb limit">>
    ELSE IF content_len = 0 THEN <<FALSE, "file is empty">>
    ELSE <<TRUE, "">>

\* validate_file_id rejecting an identifier of exactly the minimum length
validate_file_id_longer(file_id) ==
    IF file_id = "" THEN <<FALSE, "file_id is required">>
    ELSE IF Len(file_id) <= MinFileIdLen THEN <<FALSE, "invalid file_id format">>
    ELSE <<TRUE, "">>

\* FileValidator.validate_file_id
validate_file_id(file_id) ==
    IF file_id = "" THEN <<FALSE, "file_id is required">>
    ELSE IF Len(file_id) < MinFileIdLen THEN <<FALSE, "invalid file_id format">>
    ELSE <<TRUE, "">>

(* -------------------------------- upload ------------------------------- *)

Filenames ==
    { <<>>, <<"a", ".", "p", "d", "f">>, <<"A", ".", "P", "D", "F">>,
      <<"a", ".", "t", "x", "t">>, <<"p", "d", "f">> }

\* the byte ceiling of the configured maximum
MaxSizeBytes == max_file_size_mb * 1024 * 1024

ContentLens == {0, 1, MaxSizeBytes, MaxSizeBytes + 1}

\* an OSError of the local file system
OSError == [kind |-> "OSError", msg |-> "no space left on device"]

MistralService_upload_file(path, filename, out) ==
    [calls |-> <<Call("files.upload",
                      [file |-> [file_name |-> filename, content |-> path],
                       purpose |-> "ocr"],
                      out)>>,
     result |-> out]

\* FileUploadResponse(...) built from the provider's upload response
FileUploadResponse(f, content_len) ==
    LET missing == FirstMissing(f, RequiredFileAttrs) IN
    IF missing # None THEN Raise(AttributeError(missing[1]))
    ELSE Ok([id |-> f.id,
             object |-> f.object,
             bytes |-> getattr(f, "bytes", content_len),
             created_at |-> f.created_at,
             filename |-> f.filename,
             purpose |-> f.purpose,
             sample_type |-> getattr(f, "sample_type", "ocr_input"),
             num_lines |-> getattr(f, "num_lines", 0),
             mimetype |-> getattr(f, "mimetype", "application/pdf"),
             source |-> getattr(f, "source", "upload"),
             signature |-> getattr(f, "signature", "")])

\* a step of upload_document that ends the call with response rsp
UploadEnd(r, rsp) ==
    /\ pc' = [pc EXCEPT ![r] = "done"]
    /\ resp' = [resp EXCEPT ![r] = rsp]

\* POST /documents/upload, up to "await file.read()"
upload_document(r, filename) ==
    /\ Free(r)
    /\ LET rq == [ep |-> "upload_document", filename |-> filename] @@ NoReq
           v == validate_pdf(filename, max_file_size_mb)
       IN IF ~mistral_service THEN Complete(r, rq, NotInitialized, <<>>, None)
          ELSE IF ~v[1] THEN Complete(r, rq, HTTPException(400, v[2]), <<>>, None)
          ELSE /\ pc' = [pc EXCEPT ![r] = "up_read"]
               /\ req' = [req EXCEPT ![r] = rq]
               /\ resp' = [resp EXCEPT ![r] = NoResp]
               /\ calls' = [calls EXCEPT ![r] = <<>>]
               /\ adapter' = [adapter EXCEPT ![r] = None]
               /\ tmp' = [tmp EXCEPT ![r] = 0]
               /\ content' = [content EXCEPT ![r] = None]
               /\ uploaded' = [uploaded EXCEPT ![r] = None]
               /\ upstream' = [upstream EXCEPT ![r] = "none"]
               /\ received' = [received EXCEPT ![r] = <<>>]
               /\ events' = [events EXCEPT ![r] = <<>>]
               /\ gone' = [gone EXCEPT ![r] = FALSE]
               /\ UNCHANGED <<mistral_service, fs>>

\* upload_read without "except HTTPException: raise": the 400 of the size
\* validation is caught by "except Exception" and answered as a 500
upload_read_no_reraise(r, out) ==
    /\ pc[r] = "up_read"
    /\ IF ~out.ok
       THEN /\ UploadEnd(r, HTTPException(500, "failed to upload file: " \o out.err.msg))
            /\ UNCHANGED <<req, content>>
       ELSE LET v == validate_file_size(out.value, max_file_size_mb) IN
            /\ req' = [req EXCEPT ![r].size = out.value]
            /\ content' = [content EXCEPT ![r] = Some(out.value)]
            /\ IF ~v[1]
               THEN UploadEnd(r, HTTPException(500,
                        "failed to upload file: " \o ToString(400) \o ": " \o v[2]))
               ELSE /\ pc' = [pc EXCEPT ![r] = "up_stage"]
                    /\ UNCHANGED resp
    /\ UNCHANGED <<mistral_service, fs, calls, adapter, tmp, uploaded, streamVars>>

\* content = await file.read(), then the size validation
upload_read(r, out) ==
    /\ pc[r] = "up_read"
    /\ IF ~out.ok
       THEN /\ UploadEnd(r, HTTPException(500, "failed to upload file: " \o out.err.msg))
            /\ UNCHANGED <<req, content>>
       ELSE LET v == validate_file_size(out.value, max_file_size_mb) IN
            /\ req' = [req EXCEPT ![r].size = out.value]
            /\ content' = [content EXCEPT ![r] = Some(out.value)]
            /\ IF ~v[1] THEN UploadEnd(r, HTTPException(400, v[2]))
               ELSE /\ pc' = [pc EXCEPT ![r] = "up_stage"]
                    /\ UNCHANGED resp
    /\ UNCHANGED <<mistral_service, fs, calls, adapter, tmp, uploaded, streamVars>>

\* upload_stage writing to a name that may already be in use
upload_stage_any_name(r, how, p) ==
    /\ pc[r] = "up_stage"
    /\ IF how = "create_fails"
       THEN /\ UploadEnd(r, HTTPException(500, "failed to upload file: " \o OSError.msg))
            /\ UNCHANGED <<fs, tmp>>
       ELSE IF how = "write_fails"
       THEN /\ fs' = fs \cup {p}
            /\ tmp' = [tmp EXCEPT ![r] = p]
            /\ UploadEnd(r, HTTPException(500, "failed to upload file: " \o OSError.msg))
       ELSE /\ fs' = fs \cup {p}
            /\ tmp' = [tmp EXCEPT ![r] = p]
            /\ pc' = [pc EXCEPT ![r] = "up_send"]
            /\ UNCHANGED resp
    /\ UNCHANGED <<mistral_service, req, calls, adapter, content, uploaded, streamVars>>

\* with tempfile.NamedTemporaryFile(delete=False) as tmp_file: write(content).
\* how: "create_fails", "write_fails" or "ok"; p is the unused name of the
\* file created (no file is created when no name is left)
upload_stage(r, how, p) ==
    /\ pc[r] = "up_stage"
    /\ how = "create_fails" \/ p \in Paths \ fs
    /\ IF how = "create_fails"
       THEN /\ UploadEnd(r, HTTPException(500, "failed to upload file: " \o OSError.msg))
            /\ UNCHANGED <<fs, tmp>>
       ELSE IF how = "write_fails"
       THEN \* the exception leaves the with block before the try/finally
            /\ fs' = fs \cup {p}
            /\ tmp' = [tmp EXCEPT ![r] = p]
            /\ UploadEnd(r, HTTPException(500, "failed to upload file: " \o OSError.msg))
       ELSE /\ fs' = fs \cup {p}
            /\ tmp' = [tmp EXCEPT ![r] = p]
            /\ pc' = [pc EXCEPT ![r] = "up_send"]
            /\ UNCHANGED resp
    /\ UNCHANGED <<mistral_service, req, calls, adapter, content, uploaded, streamVars>>

\* with open(tmp_file_path, 'rb') as f: uploaded = mistral_service.upload_file(...)
upload_send(r, out) ==
    /\ pc[r] = "up_send"
    /\ IF tmp[r] \in fs
       THEN LET a == MistralService_upload_file(tmp[r], req[r].filename, out) IN
            /\ calls' = [calls EXCEPT ![r] = a.calls]
            /\ uploaded' = [uploaded EXCEPT ![r] = Some(a.result)]
       ELSE /\ uploaded' = [uploaded EXCEPT ![r] =
                               Some(Raise([kind |-> "FileNotFoundError",
                                           msg |-> "no such file or directory"]))]
            /\ UNCHANGED calls
    /\ pc' = [pc EXCEPT ![r] = "up_finally"]
    /\ UNCHANGED <<mistral_service, fs, req, resp, adapter, tmp, content, streamVars>>

\* finally: unlink the temporary file; then map the response or fail
upload_finally(r) ==
    /\ pc[r] = "up_finally"
    /\ fs' = fs \ {tmp[r]}
    /\ LET mapped == IF ~uploaded[r][1].ok THEN uploaded[r][1]
                     ELSE FileUploadResponse(uploaded[r][1].value, content[r][1])
       IN UploadEnd(r, IF mapped.ok THEN Response(mapped.value)
                       ELSE HTTPException(500,
                                "failed to upload file: " \o mapped.err.msg))
    /\ UNCHANGED <<mistral_service, req, calls, adapter, uploadVars, streamVars>>

(* ------------------------ document endpoints --------------------------- *)

\* GET /documents/
list_documents(r, out) ==
    /\ Free(r)
    /\ LET rq == [ep |-> "list_documents"] @@ NoReq IN
       IF ~mistral_service THEN Complete(r, rq, NotInitialized, <<>>, None)
       ELSE
         LET a == MistralService_list_files(out)
             mapped == IF ~a.result.ok THEN a.result
                       ELSE IF hasattr(a.result.value, "data")
                            THEN MapFileList(a.result.value.data, <<>>)
                            ELSE Ok(<<>>)
         IN Complete(r, rq,
                IF mapped.ok
                THEN Response([files |-> mapped.value, total |-> Len(mapped.value)])
                ELSE HTTPException(500, "failed to list files: " \o mapped.err.msg),
                a.calls, None)

\* GET /documents/{file_id}
retrieve_document(r, file_id, out) ==
    /\ Free(r)
    /\ LET rq == [ep |-> "retrieve_document", file_id |-> file_id] @@ NoReq IN
       IF ~mistral_service THEN Complete(r, rq, NotInitialized, <<>>, None)
       ELSE
         LET a == MistralService_retrieve_file(file_id, out)
             mapped == IF ~a.result.ok THEN a.result
                       ELSE FileRetrieveResponse(a.result.value)
         IN Complete(r, rq,
                IF mapped.ok THEN Response(mapped.value)
                ELSE HTTPException(404, "file not found: " \o mapped.err.msg),
                a.calls, None)

\* delete_document answering with the id and the deleted flag of the
\* provider's response
delete_document_echo(r, file_id, out) ==
    /\ Free(r)
    /\ LET rq == [ep |-> "delete_document", file_id |-> file_id] @@ NoReq IN
       IF ~mistral_service THEN Complete(r, rq, NotInitialized, <<>>, None)
       ELSE
         LET a == MistralService_delete_file(file_id, out) IN
         Complete(r, rq,
            IF a.result.ok
            THEN Response([id |-> a.result.value.id,
                           deleted |-> a.result.value.deleted,
                           message |-> "file " \o file_id \o " deleted successfully"])
            ELSE HTTPException(500, "failed to delete file: " \o a.result.err.msg),
            a.calls, None)

\* delete_document without the test of mistral_service
delete_document_unguarded(r, file_id, out) ==
    /\ Free(r)
    /\ LET rq == [ep |-> "delete_document", file_id |-> file_id] @@ NoReq
           a == MistralService_delete_file(file_id, out)
       IN Complete(r, rq,
            IF a.result.ok
            THEN Response([id |-> file_id, deleted |-> TRUE,
                           message |-> "file " \o file_id \o " deleted successfully"])
            ELSE HTTPException(500, "failed to delete file: " \o a.result.err.msg),
            a.calls, None)

\* DELETE /documents/{file_id}
delete_document(r, file_id, out) ==
    /\ Free(r)
    /\ LET rq == [ep |-> "delete_document", file_id |-> file_id] @@ NoReq IN
       IF ~mistral_service THEN Complete(r, rq, NotInitialized, <<>>, None)
       ELSE
         LET a == MistralService_delete_file(file_id, out) IN
         Complete(r, rq,
            IF a.result.ok
            THEN Response([id |-> file_id, deleted |-> TRUE,
                           message |-> "file " \o file_id \o " deleted successfully"])
            ELSE HTTPException(500, "failed to delete file: " \o a.result.err.msg),
            a.calls, None)

\* GET /documents/{file_id}/signed-url
get_signed_url(r, file_id, expiry_hours, out) ==
    /\ Free(r)
    /\ LET rq == [ep |-> "get_signed_url", file_id |-> file_id,
                  expiry_hours |-> expiry_hours] @@ NoReq IN
       IF ~mistral_service THEN Complete(r, rq, NotInitialized, <<>>, None)
       ELSE
         LET a == MistralService_get_signed_url(file_id, expiry_hours, out) IN
         Complete(r, rq,
            IF a.result.ok THEN Response([url |-> a.result.value.url])
            ELSE HTTPException(500, "failed to get signed url: " \o a.result.err.msg),
            a.calls, None)

\* GET /health
health_check(r) ==
    /\ Free(r)
    /\ Complete(r, [ep |-> "health_check"] @@ NoReq,
                Response([status |-> "healthy",
                          mistral_service_initialized |-> mistral_service]),
                <<>>, None)

(* ------------------------ OCR and Q&A: provider ------------------------ *)

\* responses of ocr.process
OcrObjs ==
    { [pages |-> <<>>],
      [pages |-> <<[index |-> 0, markdown |-> "p0", image_base64 |-> "img"],
                   [index |-> 1, markdown |-> "p1"]>>],
      [pages |-> <<[index |-> 0, markdown |-> "p0", image_base64 |-> ""]>>],
      [model |-> "mistral-ocr-latest"] }

OcrOutcomes == {Ok(o) : o \in OcrObjs} \cup {Raise(e) : e \in ProviderErrors}

\* a chat completion whose total is not the sum of the other two counters
GoodChatObj ==
    [choices |-> <<[message |-> [content |-> "answer"]],
                   [message |-> [content |-> "second"]]>>,
     model |-> DefaultModel,
     usage |-> [prompt_tokens |-> 7, completion_tokens |-> 3, total_tokens |-> 11]]

\* a chat completion without a usage object
NoUsageChatObj ==
    [choices |-> <<[message |-> [content |-> "answer"]]>>, model |-> DefaultModel]

\* a chat completion without choices
NoChoicesChatObj ==
    [choices |-> <<>>, model |-> DefaultModel,
     usage |-> [prompt_tokens |-> 7, completion_tokens |-> 0, total_tokens |-> 7]]

ChatObjs == {GoodChatObj, NoUsageChatObj, NoChoicesChatObj}

ChatOutcomes == {Ok(o) : o \in ChatObjs} \cup {Raise(e) : e \in ProviderErrors}

\* chat.stream either opens a stream or raises
StreamOutcomes == {Ok([stream |-> TRUE])} \cup {Raise(e) : e \in ProviderErrors}

(* ------------------------ OCR and Q&A: inputs -------------------------- *)

Questions == {"Q"}

Roles == {"user", "assistant", "system"}

Contents == {"", "A", "B"}

\* ConversationMessage
Messages == [role : Roles, content : Contents]

SeqsUpTo(S, n) == UNION {[1..k -> S] : k \in 0..n}

MessageLists == SeqsUpTo(Messages, MaxMsgs)

\* conversation_history of a DocumentQARequest
Histories ==
    { None, Some(<<>>),
      Some(<<[role |-> "user", content |-> "A"],
             [role |-> "assistant", content |-> "B"]>>) }

(* ------------------------ OCR and Q&A: adapter ------------------------- *)

MistralService_process_ocr(document_url, include_image_base64, out) ==
    [calls |-> <<Call("ocr.process",
                      [model |-> "mistral-ocr-latest",
                       document |-> [type |-> "document_url",
                                     document_url |-> document_url],
                       include_image_base64 |-> include_image_base64],
                      out)>>,
     result |-> out]

\* the messages array MistralService.query_document builds
BuildMessages(question, conversation_history, url) ==
    LET messages == IF conversation_history # None /\ conversation_history[1] # <<>>
                    THEN conversation_history[1] ELSE <<>>
    IN Append(messages,
              [role |-> "user",
               content |-> <<[type |-> "text", text |-> question],
                             [type |-> "document_url", document_url |-> url]>>])

MistralService_query_document(file_id, question, model, conversation_history, outUrl, outChat) ==
    LET su == MistralService_get_signed_url(file_id, None, outUrl) IN
    IF ~su.result.ok THEN su
    ELSE LET messages == BuildMessages(question, conversation_history,
                                       su.result.value.url)
         IN [calls |-> su.calls \o
                       <<Call("chat.complete",
                              [model |-> model, messages |-> messages], outChat)>>,
             result |-> outChat]

\* BuildMessagesStreaming that leaves the history out
BuildMessagesStreaming_no_history(question, conversation_history, url) ==
    <<[role |-> "user",
       content |-> <<[type |-> "text", text |-> question],
                     [type |-> "document_url", document_url |-> url]>>]>>

\* the messages array MistralService.query_document_streaming builds
BuildMessagesStreaming(question, conversation_history, url) ==
    LET messages == IF conversation_history # None /\ conversation_history[1] # <<>>
                    THEN conversation_history[1] ELSE <<>>
    IN Append(messages,
              [role |-> "user",
               content |-> <<[type |-> "text", text |-> question],
                             [type |-> "document_url", document_url |-> url]>>])

MistralService_query_document_streaming(file_id, question, model, conversation_history, outUrl, outStream) ==
    LET su == MistralService_get_signed_url(file_id, None, outUrl) IN
    IF ~su.result.ok THEN su
    ELSE LET messages == BuildMessagesStreaming(question, conversation_history,
                                       su.result.value.url)
         IN [calls |-> su.calls \o
                       <<Call("chat.stream",
                              [model |-> model, messages |-> messages], outStream)>>,
             result |-> outStream]

\* the arguments a handler passes to the adapter's Q&A operation
AdapterArgs(op, file_id, question, model, conversation_history) ==
    Some([op |-> op, file_id |-> file_id, question |-> question, model |-> model,
          conversation_history |-> conversation_history])

(* ------------------------ OCR and Q&A: mapping ------------------------- *)

\* the loop of query_ocr over ocr_response.pages
RECURSIVE MapOcrPages(_, _)
MapOcrPages(ps, pages) ==
    IF ps = <<>> THEN Ok(pages)
    ELSE LET page == Head(ps)
             missing == FirstMissing(page, <<"index", "markdown">>)
         IN IF missing # None THEN Raise(AttributeError(missing[1]))
            ELSE MapOcrPages(Tail(ps),
                    Append(pages,
                           [index |-> page.index,
                            markdown |-> page.markdown,
                            image_base64 |->
                                IF hasattr(page, "image_base64")
                                THEN Some(page.image_base64) ELSE None]))

\* ChatFields with the total recomputed from the other two counters
ChatFields_recomputed(chat_response) ==
    IF chat_response.choices = <<>>
    THEN Raise([kind |-> "IndexError", msg |-> "list index out of range"])
    ELSE IF ~hasattr(chat_response, "usage") THEN Raise(AttributeError("prompt_tokens"))
    ELSE Ok([answer |-> chat_response.choices[1].message.content,
             model |-> chat_response.model,
             usage |-> [prompt_tokens |-> chat_response.usage.prompt_tokens,
                        completion_tokens |-> chat_response.usage.completion_tokens,
                        total_tokens |-> chat_response.usage.prompt_tokens
                                         + chat_response.usage.completion_tokens]])

\* answer, model and usage counters read from a chat completion
ChatFields(chat_response) ==
    IF chat_response.choices = <<>>
    THEN Raise([kind |-> "IndexError", msg |-> "list index out of range"])
    ELSE IF ~hasattr(chat_response, "usage") THEN Raise(AttributeError("prompt_tokens"))
    ELSE Ok([answer |-> chat_response.choices[1].message.content,
             model |-> chat_response.model,
             usage |-> [prompt_tokens |-> chat_response.usage.prompt_tokens,
                        completion_tokens |-> chat_response.usage.completion_tokens,
                        total_tokens |-> chat_response.usage.total_tokens]])

(* --------------------------- OCR and Q&A endpoints --------------------- *)

\* POST /ocr/query
query_ocr(r, file_id, include_image_base64, outUrl, outOcr) ==
    /\ Free(r)
    /\ LET rq == [ep |-> "query_ocr", file_id |-> file_id,
                  include_image_base64 |-> include_image_base64] @@ NoReq IN
       IF ~mistral_service THEN Complete(r, rq, NotInitialized, <<>>, None)
       ELSE
         LET su == MistralService_get_signed_url(file_id, None, outUrl)
             oc == IF ~su.result.ok THEN su
                   ELSE LET o == MistralService_process_ocr(su.result.value.url,
                                        include_image_base64, outOcr)
                        IN [calls |-> su.calls \o o.calls, result |-> o.result]
             mapped == IF ~oc.result.ok THEN oc.result
                       ELSE IF ~hasattr(oc.result.value, "pages")
                            THEN Raise(AttributeError("pages"))
                            ELSE MapOcrPages(oc.result.value.pages, <<>>)
         IN Complete(r, rq,
                IF mapped.ok THEN Response([pages |-> mapped.value])
                ELSE HTTPException(500, "failed to process ocr: " \o mapped.err.msg),
                oc.calls, None)

\* POST /qa/query
query_document(r, file_id, question, conversation_history, outUrl, outChat) ==
    /\ Free(r)
    /\ LET rq == [ep |-> "query_document", file_id |-> file_id,
                  question |-> question,
                  conversation_history |-> conversation_history] @@ NoReq IN
       IF ~mistral_service THEN Complete(r, rq, NotInitialized, <<>>, None)
       ELSE
         LET a == MistralService_query_document(file_id, question, rq.model,
                                                conversation_history, outUrl, outChat)
             mapped == IF ~a.result.ok THEN a.result ELSE ChatFields(a.result.value)
         IN Complete(r, rq,
                IF mapped.ok
                THEN Response([answer |-> mapped.value.answer,
                               model |-> mapped.value.model,
                               usage |-> mapped.value.usage,
                               file_id |-> file_id,
                               question |-> question])
                ELSE HTTPException(500, "failed to query document: " \o mapped.err.msg),
                a.calls,
                AdapterArgs("query_document", file_id, question, rq.model,
                            conversation_history))

(* ------------------------ conversation derivation ---------------------- *)

\* request.messages[:-1]
AllButLast(s) == IF s = <<>> THEN <<>> ELSE SubSeq(s, 1, Len(s) - 1)

\* BuildHistory with each turn inserted at the front of the history
RECURSIVE BuildHistoryFront(_, _)
BuildHistoryFront(msgs, conversation_history) ==
    IF msgs = <<>> THEN conversation_history
    ELSE LET msg == Head(msgs)
             next == IF msg.role \in {"user", "assistant"}
                     THEN <<[role |-> msg.role, content |-> msg.content]>>
                          \o conversation_history
                     ELSE conversation_history
         IN BuildHistoryFront(Tail(msgs), next)

\* the loop that converts the earlier messages to conversation history
RECURSIVE BuildHistory(_, _)
BuildHistory(msgs, conversation_history) ==
    IF msgs = <<>> THEN conversation_history
    ELSE LET msg == Head(msgs)
             next == IF msg.role = "user"
                     THEN Append(conversation_history,
                                 [role |-> "user", content |-> msg.content])
                     ELSE IF msg.role = "assistant"
                     THEN Append(conversation_history,
                                 [role |-> "assistant", content |-> msg.content])
                     ELSE conversation_history
         IN BuildHistory(Tail(msgs), next)

\* the current question: the last message when its role is user, else a 400
LastUserMessage(messages) ==
    IF messages # <<>> /\ messages[Len(messages)].role # "user"
    THEN Raise([status |-> 400, detail |-> "last message must be from user"])
    ELSE IF messages = <<>> \/ messages[Len(messages)].content = ""
    THEN Raise([status |-> 400, detail |-> "no user message found"])
    ELSE Ok(messages[Len(messages)].content)

\* str() of an HTTPException
StrHTTPException(e) == ToString(e.status) \o ": " \o e.detail

\* POST /qa/conversation
query_document_conversation(r, file_id, messages, outUrl, outChat) ==
    /\ Free(r)
    /\ LET rq == [ep |-> "query_document_conversation", file_id |-> file_id,
                  messages |-> messages] @@ NoReq IN
       IF ~mistral_service THEN Complete(r, rq, NotInitialized, <<>>, None)
       ELSE
         LET conversation_history == BuildHistory(AllButLast(messages), <<>>)
             last_user_message == LastUserMessage(messages)
         IN
         IF ~last_user_message.ok
         THEN \* except HTTPException: raise
              Complete(r, rq,
                  HTTPException(last_user_message.err.status,
                                last_user_message.err.detail),
                  <<>>, None)
         ELSE
           LET history == IF conversation_history # <<>>
                          THEN Some(conversation_history) ELSE None
               a == MistralService_query_document(file_id, last_user_message.value,
                                                  rq.model, history, outUrl, outChat)
               mapped == IF ~a.result.ok THEN a.result ELSE ChatFields(a.result.value)
           IN Complete(r, rq,
                  IF mapped.ok
                  THEN Response([answer |-> mapped.value.answer,
                                 model |-> mapped.value.model,
                                 usage |-> mapped.value.usage,
                                 file_id |-> file_id,
                                 conversation_length |-> Len(messages)])
                  ELSE HTTPException(500,
                           "failed to query document: " \o mapped.err.msg),
                  a.calls,
                  AdapterArgs("query_document", file_id, last_user_message.value,
                              rq.model, history))

(* ----------------------------- streaming relay ------------------------ *)

\* increments (chunks) the provider's stream can deliver
Chunks ==
    { [data |-> [choices |-> <<>>]],
      [data |-> [choices |-> <<[delta |-> [role |-> "assistant"]]>>]],
      [data |-> [choices |-> <<[delta |-> [content |-> ""]]>>]],
      [data |-> [choices |-> <<[delta |-> [content |-> "Hi"]]>>]],
      [data |-> [choices |-> <<[delta |-> [content |-> " there"]]>>]] }

\* normal exhaustion of the provider's stream
EndOfStream == [ok |-> TRUE, stop |-> TRUE]

\* what one read of the provider's stream can give
StreamItems ==
    {Ok(c) : c \in Chunks} \cup {Raise(e) : e \in ProviderErrors} \cup {EndOfStream}

\* HasContent without the truthiness test of delta.content
HasContentAttr(chunk) ==
    /\ chunk.data.choices # <<>>
    /\ hasattr(chunk.data.choices[1].delta, "content")

\* the test generate() makes before it yields a content event
HasContent(chunk) ==
    /\ chunk.data.choices # <<>>
    /\ hasattr(chunk.data.choices[1].delta, "content")
    /\ chunk.data.choices[1].delta.content # ""

\* the events generate() yields (the payload that json.dumps serialises)
ContentEvent(c) == [content |-> c]

DoneEvent == [done |-> TRUE]

\* the handler returned StreamingResponse(generate()): slot r holds an
\* open provider stream and a generator that has not run yet
StartStream(r, rq, cs, ad) ==
    /\ pc' = [pc EXCEPT ![r] = "gen_created"]
    /\ req' = [req EXCEPT ![r] = rq]
    /\ resp' = [resp EXCEPT ![r] = Response("text/event-stream")]
    /\ calls' = [calls EXCEPT ![r] = cs]
    /\ adapter' = [adapter EXCEPT ![r] = ad]
    /\ tmp' = [tmp EXCEPT ![r] = 0]
    /\ content' = [content EXCEPT ![r] = None]
    /\ uploaded' = [uploaded EXCEPT ![r] = None]
    /\ upstream' = [upstream EXCEPT ![r] = "open"]
    /\ received' = [received EXCEPT ![r] = <<>>]
    /\ events' = [events EXCEPT ![r] = <<>>]
    /\ gone' = [gone EXCEPT ![r] = FALSE]
    /\ UNCHANGED <<mistral_service, fs>>

\* POST /qa/stream
query_document_stream(r, file_id, question, conversation_history, outUrl, outStream) ==
    /\ Free(r)
    /\ LET rq == [ep |-> "query_document_stream", file_id |-> file_id,
                  question |-> question,
                  conversation_history |-> conversation_history] @@ NoReq IN
       IF ~mistral_service THEN Complete(r, rq, NotInitialized, <<>>, None)
       ELSE
         LET a == MistralService_query_document_streaming(file_id, question,
                      rq.model, conversation_history, outUrl, outStream)
             ad == AdapterArgs("query_document_streaming", file_id, question,
                               rq.model, conversation_history)
         IN IF a.result.ok THEN StartStream(r, rq, a.calls, ad)
            ELSE Complete(r, rq,
                     HTTPException(500, "failed to stream query: " \o a.result.err.msg),
                     a.calls, ad)

\* POST /qa/conversation/stream
query_document_conversation_stream(r, file_id, messages, outUrl, outStream) ==
    /\ Free(r)
    /\ LET rq == [ep |-> "query_document_conversation_stream", file_id |-> file_id,
                  messages |-> messages] @@ NoReq IN
       IF ~mistral_service THEN Complete(r, rq, NotInitialized, <<>>, None)
       ELSE
         LET conversation_history == BuildHistory(AllButLast(messages), <<>>)
             last_user_message == LastUserMessage(messages)
         IN
         IF ~last_user_message.ok
         THEN \* the HTTPException is caught by "except Exception"
              Complete(r, rq,
                  HTTPException(500, "failed to stream query: "
                                     \o StrHTTPException(last_user_message.err)),
                  <<>>, None)
         ELSE
           LET a == MistralService_query_document_streaming(file_id,
                        last_user_message.value, rq.model,
                        Some(conversation_history), outUrl, outStream)
               ad == AdapterArgs("query_document_streaming", file_id,
                                 last_user_message.value, rq.model,
                                 Some(conversation_history))
           IN IF a.result.ok THEN StartStream(r, rq, a.calls, ad)
              ELSE Complete(r, rq,
                       HTTPException(500,
                           "failed to stream query: " \o a.result.err.msg),
                       a.calls, ad)

\* the response starts (or continues) iterating generate(): the generator
\* runs from its start, or from the yield it was suspended at
generate_resume(r) ==
    /\ pc[r] \in {"gen_created", "gen_suspended"}
    /\ ~gone[r]
    /\ pc' = [pc EXCEPT ![r] = "gen_run"]
    /\ UNCHANGED <<mistral_service, fs, req, resp, calls, adapter,
                   uploadVars, streamVars>>

\* generate_read that keeps reading after an increment with content, its
\* event held back
generate_read_ahead(r, item) ==
    /\ pc[r] = "gen_run"
    /\ IF ~item.ok
       THEN /\ upstream' = [upstream EXCEPT ![r] = "failed"]
            /\ pc' = [pc EXCEPT ![r] = "gen_error"]
            /\ UNCHANGED received
       ELSE IF item = EndOfStream
       THEN /\ upstream' = [upstream EXCEPT ![r] = "exhausted"]
            /\ pc' = [pc EXCEPT ![r] = "gen_yield_done"]
            /\ UNCHANGED received
       ELSE /\ Len(received[r]) < MaxChunks
            /\ received' = [received EXCEPT ![r] = Append(@, item.value)]
            /\ pc' = [pc EXCEPT ![r] =
                        IF HasContent(item.value) /\ received[r] # <<>>
                        THEN "gen_yield" ELSE "gen_run"]
            /\ UNCHANGED upstream
    /\ UNCHANGED <<mistral_service, fs, req, resp, calls, adapter,
                   uploadVars, events, gone>>

\* generate_read with the stream's exception swallowed: the loop ends as if
\* the stream were exhausted
generate_read_swallow(r, item) ==
    /\ pc[r] = "gen_run"
    /\ IF ~item.ok
       THEN /\ upstream' = [upstream EXCEPT ![r] = "failed"]
            /\ pc' = [pc EXCEPT ![r] = "gen_yield_done"]
            /\ UNCHANGED received
       ELSE IF item = EndOfStream
       THEN /\ upstream' = [upstream EXCEPT ![r] = "exhausted"]
            /\ pc' = [pc EXCEPT ![r] = "gen_yield_done"]
            /\ UNCHANGED received
       ELSE /\ Len(received[r]) < MaxChunks
            /\ received' = [received EXCEPT ![r] = Append(@, item.value)]
            /\ pc' = [pc EXCEPT ![r] =
                        IF HasContent(item.value) THEN "gen_yield" ELSE "gen_run"]
            /\ UNCHANGED upstream
    /\ UNCHANGED <<mistral_service, fs, req, resp, calls, adapter,
                   uploadVars, events, gone>>

\* "for chunk in stream": one read of the provider's stream
generate_read(r, item) ==
    /\ pc[r] = "gen_run"
    /\ IF ~item.ok
       THEN \* the exception leaves generate(): no completion event
            /\ upstream' = [upstream EXCEPT ![r] = "failed"]
            /\ pc' = [pc EXCEPT ![r] = "gen_error"]
            /\ UNCHANGED received
       ELSE IF item = EndOfStream
       THEN /\ upstream' = [upstream EXCEPT ![r] = "exhausted"]
            /\ pc' = [pc EXCEPT ![r] = "gen_yield_done"]
            /\ UNCHANGED received
       ELSE /\ Len(received[r]) < MaxChunks
            /\ received' = [received EXCEPT ![r] = Append(@, item.value)]
            /\ pc' = [pc EXCEPT ![r] =
                        IF HasContent(item.value) THEN "gen_yield" ELSE "gen_run"]
            /\ UNCHANGED upstream
    /\ UNCHANGED <<mistral_service, fs, req, resp, calls, adapter,
                   uploadVars, events, gone>>

\* yield of the content event for the chunk just read
generate_yield(r) ==
    /\ pc[r] = "gen_yield"
    /\ LET chunk == received[r][Len(received[r])] IN
       events' = [events EXCEPT ![r] =
                     Append(@, ContentEvent(chunk.data.choices[1].delta.content))]
    /\ pc' = [pc EXCEPT ![r] = "gen_suspended"]
    /\ UNCHANGED <<mistral_service, fs, req, resp, calls, adapter,
                   uploadVars, upstream, received, gone>>

\* yield of the completion signal after the loop
generate_yield_done(r) ==
    /\ pc[r] = "gen_yield_done"
    /\ events' = [events EXCEPT ![r] = Append(@, DoneEvent)]
    /\ pc' = [pc EXCEPT ![r] = "gen_suspended_done"]
    /\ UNCHANGED <<mistral_service, fs, req, resp, calls, adapter,
                   uploadVars, upstream, received, gone>>

\* generate() returns after the completion signal was taken
generate_return(r) ==
    /\ pc[r] = "gen_suspended_done"
    /\ ~gone[r]
    /\ pc' = [pc EXCEPT ![r] = "gen_closed"]
    /\ UNCHANGED <<mistral_service, fs, req, resp, calls, adapter,
                   uploadVars, streamVars>>

\* the consumer of the streaming response disconnects
disconnect(r) ==
    /\ pc[r] \in {"gen_created", "gen_run", "gen_yield", "gen_suspended",
                  "gen_yield_done", "gen_suspended_done"}
    /\ ~gone[r]
    /\ gone' = [gone EXCEPT ![r] = TRUE]
    /\ UNCHANGED <<mistral_service, fs, pc, req, resp, calls, adapter,
                   uploadVars, upstream, received, events>>

\* the response observes the disconnect while generate() is suspended and
\* stops iterating it; nothing in the handler closes the provider's stream
generate_abandon(r) ==
    /\ pc[r] \in {"gen_created", "gen_suspended", "gen_suspended_done"}
    /\ gone[r]
    /\ pc' = [pc EXCEPT ![r] = "gen_abandoned"]
    /\ UNCHANGED <<mistral_service, fs, req, resp, calls, adapter,
                   uploadVars, streamVars>>

(* ------------------------- utility functions --------------------------- *)
\* FileValidator and ResponseFormatter are pure; a call of one of them is a
\* step that records its arguments in req and what it returned in resp.

\* what a utility function returned (no HTTP response is involved)
Returned(v) == [status |-> 0, detail |-> "", body |-> v]

\* the validation of a candidate upload as upload_document applies it: the
\* filename rules first, then the size rules on the content read
ValidateUpload(filename, content_len, max_size_mb) ==
    LET v == validate_pdf(filename, max_size_mb) IN
    IF ~v[1] THEN v ELSE validate_file_size(content_len, max_size_mb)

\* settings.max_file_size_mb is an int that the environment can override
MaxSizesMb == {-1, 0, 1, max_file_size_mb}

UtilContentLens ==
    {0, 1} \cup UNION {{m * 1024 * 1024 - 1, m * 1024 * 1024, m * 1024 * 1024 + 1} :
                          m \in {1, max_file_size_mb}}

UtilFilenames ==
    Filenames \cup
    { <<".", "p", "d", "f">>, <<"a", ".", "P", "d", "F">>,
      <<"a", ".", "p", "d", "f", "x">>, <<"a", ".", "p", "d">>, <<"a">> }

UtilFileIds == FileIds \cup {"file-1234", "123456789012345"}

validate_upload(r, filename, content_len, max_size_mb) ==
    /\ Free(r)
    /\ Complete(r, [ep |-> "validate_upload", filename |-> filename,
                    size |-> content_len, max_size_mb |-> max_size_mb] @@ NoReq,
                Returned(ValidateUpload(filename, content_len, max_size_mb)),
                <<>>, None)

FileValidator_validate_pdf(r, filename, max_size_mb) ==
    /\ Free(r)
    /\ Complete(r, [ep |-> "validate_pdf", filename |-> filename,
                    max_size_mb |-> max_size_mb] @@ NoReq,
                Returned(validate_pdf(filename, max_size_mb)), <<>>, None)

FileValidator_validate_file_size(r, content_len, max_size_mb) ==
    /\ Free(r)
    /\ Complete(r, [ep |-> "validate_file_size", size |-> content_len,
                    max_size_mb |-> max_size_mb] @@ NoReq,
                Returned(validate_file_size(content_len, max_size_mb)), <<>>, None)

FileValidator_validate_file_id(r, file_id) ==
    /\ Free(r)
    /\ Complete(r, [ep |-> "validate_file_id", file_id |-> file_id] @@ NoReq,
                Returned(validate_file_id(file_id)), <<>>, None)

\* ResponseFormatter.format_file_metadata: every attribute but deleted is
\* read without a default
format_file_metadata(file_obj) ==
    LET missing == FirstMissing(file_obj,
                       <<"id", "object", "bytes", "created_at", "filename", "purpose",
                         "sample_type", "num_lines", "mimetype", "source", "signature">>)
    IN IF missing # None THEN Raise(AttributeError(missing[1]))
       ELSE Ok([id |-> file_obj.id,
                object |-> file_obj.object,
                bytes |-> file_obj.bytes,
                created_at |-> file_obj.created_at,
                filename |-> file_obj.filename,
                purpose |-> file_obj.purpose,
                sample_type |-> file_obj.sample_type,
                num_lines |-> file_obj.num_lines,
                mimetype |-> file_obj.mimetype,
                source |-> file_obj.source,
                signature |-> file_obj.signature,
                deleted |-> getattr(file_obj, "deleted", FALSE)])

\* ResponseFormatter.format_ocr_pages: a page dict gets the key image_base64
\* only when the page has the attribute and its value is truthy
RECURSIVE format_ocr_pages(_, _)
format_ocr_pages(pages, formatted_pages) ==
    IF pages = <<>> THEN Ok(formatted_pages)
    ELSE LET page == Head(pages)
             missing == FirstMissing(page, <<"index", "markdown">>)
             formatted_page == [index |-> page.index, markdown |-> page.markdown]
         IN IF missing # None THEN Raise(AttributeError(missing[1]))
            ELSE format_ocr_pages(Tail(pages),
                    Append(formatted_pages,
                           IF hasattr(page, "image_base64") /\ page.image_base64 # ""
                           THEN [image_base64 |-> page.image_base64] @@ formatted_page
                           ELSE formatted_page))

\* ResponseFormatter.format_qa_response
format_qa_response(chat_response, file_id, question) ==
    IF chat_response.choices = <<>>
    THEN Raise([kind |-> "IndexError", msg |-> "list index out of range"])
    ELSE IF ~hasattr(chat_response, "usage") THEN Raise(AttributeError("prompt_tokens"))
    ELSE Ok([answer |-> chat_response.choices[1].message.content,
             model |-> chat_response.model,
             usage |-> [prompt_tokens |-> chat_response.usage.prompt_tokens,
                        completion_tokens |-> chat_response.usage.completion_tokens,
                        total_tokens |-> chat_response.usage.total_tokens],
             file_id |-> file_id,
             question |-> question])

\* a provider file object with the byte count but no other optional attribute
SizedFileObj == [bytes |-> 1024] @@ MinimalFileObj

UtilFileObjs == FileObjs \cup {SizedFileObj}

\* the page sequences of the OCR responses that have one
UtilPageLists == {o.pages : o \in {x \in OcrObjs : hasattr(x, "pages")}}

ResponseFormatter_format_file_metadata(r, file_obj) ==
    /\ Free(r)
    /\ Complete(r, [ep |-> "format_file_metadata", arg |-> file_obj] @@ NoReq,
                Returned(format_file_metadata(file_obj)), <<>>, None)

ResponseFormatter_format_ocr_pages(r, pages) ==
    /\ Free(r)
    /\ Complete(r, [ep |-> "format_ocr_pages", arg |-> pages] @@ NoReq,
                Returned(format_ocr_pages(pages, <<>>)), <<>>, None)

ResponseFormatter_format_qa_response(r, chat_response, file_id, question) ==
    /\ Free(r)
    /\ Complete(r, [ep |-> "format_qa_response", arg |-> chat_response,
                    file_id |-> file_id, question |-> question] @@ NoReq,
                Returned(format_qa_response(chat_response, file_id, question)),
                <<>>, None)

(* ----------------------------- specifications -------------------------- *)

\* the document endpoints, one request at a time in slot 1
NextDocuments ==
    \/ \E out \in ListOutcomes : list_documents(1, out)
    \/ \E id \in PathFileIds, out \in FileOutcomes : retrieve_document(1, id, out)
    \/ \E id \in PathFileIds, out \in DeleteOutcomes : delete_document(1, id, out)
    \/ \E id \in PathFileIds, h \in ExpiryHours, out \in SignedUrlOutcomes :
          get_signed_url(1, id, h, out)
    \/ health_check(1)

\* the blocking OCR and Q&A endpoints, one request at a time in slot 1
NextQuery ==
    \/ \E id \in FileIds, img \in BOOLEAN,
          outUrl \in SignedUrlOutcomes, outOcr \in OcrOutcomes :
          query_ocr(1, id, img, outUrl, outOcr)
    \/ \E id \in FileIds, q \in Questions, h \in Histories,
          outUrl \in SignedUrlOutcomes, outChat \in ChatOutcomes :
          query_document(1, id, q, h, outUrl, outChat)

\* message lists the streaming specification draws from
StreamMessageLists ==
    { <<[role |-> "user", content |-> "A"]>>,
      <<[role |-> "user", content |-> "A"], [role |-> "assistant", content |-> "B"],
        [role |-> "user", content |-> "B"]>>,
      <<[role |-> "assistant", content |-> "B"]>> }

\* the steps of a streaming response in slot r
StreamSteps(r, items) ==
    \/ generate_resume(r)
    \/ \E item \in items : generate_read(r, item)
    \/ generate_yield(r)
    \/ generate_yield_done(r)
    \/ generate_return(r)
    \/ disconnect(r)
    \/ generate_abandon(r)

\* the two streaming endpoints, one request at a time in slot 1
NextStream ==
    \/ \E id \in {"file-12345"}, q \in Questions, h \in Histories,
          outUrl \in SignedUrlOutcomes, outStream \in StreamOutcomes :
          query_document_stream(1, id, q, h, outUrl, outStream)
    \/ \E id \in {"file-12345"}, ms \in StreamMessageLists,
          outUrl \in SignedUrlOutcomes, outStream \in StreamOutcomes :
          query_document_conversation_stream(1, id, ms, outUrl, outStream)
    \/ StreamSteps(1, StreamItems)

SpecStream == Init /\ [][NextStream]_vars

\* the two conversation endpoints over every message list, one request
\* of a fresh process
NextConversation ==
    \/ /\ pc[1] = "idle"
       /\ \E id \in {"file-12345"}, ms \in MessageLists,
             outUrl \in SignedUrlOutcomes, outChat \in ChatOutcomes :
             query_document_conversation(1, id, ms, outUrl, outChat)
    \/ /\ pc[1] = "idle"
       /\ \E id \in {"file-12345"}, ms \in MessageLists,
             outUrl \in SignedUrlOutcomes, outStream \in StreamOutcomes :
             query_document_conversation_stream(1, id, ms, outUrl, outStream)

SpecConversation == Init /\ [][NextConversation]_vars

\* outcomes of await file.read()
ReadOutcomes == {Ok(n) : n \in ContentLens} \cup {Raise(OSError)}

StageOutcomes == {"create_fails", "write_fails", "ok"}

\* the steps of an upload call in slot r
UploadSteps(r, names, reads, hows, outs) ==
    \/ \E filename \in names : upload_document(r, filename)
    \/ \E out \in reads : upload_read(r, out)
    \/ \E how \in hows, p \in Paths : upload_stage(r, how, p)
    \/ \E out \in outs : upload_send(r, out)
    \/ upload_finally(r)

\* concurrent upload calls, one per slot
NextUpload ==
    \E r \in Slots :
        UploadSteps(r, {<<>>, <<"a", ".", "p", "d", "f">>, <<"a", ".", "t", "x", "t">>},
                    {Ok(0), Ok(MaxSizeBytes), Ok(MaxSizeBytes + 1), Raise(OSError)},
                    StageOutcomes,
                    {Ok(FullFileObj), Ok(BrokenFileObj),
                     Raise([kind |-> "unavailable", msg |-> "service unavailable"])})

SpecUpload == Init /\ [][NextUpload]_vars

\* every endpoint, one request at a time in slot 1 (the staged content of
\* an upload is always written in full here; SpecUpload covers the rest)
Next ==
    \/ NextDocuments
    \/ NextQuery
    \/ UploadSteps(1, Filenames, ReadOutcomes, {"create_fails", "ok"}, FileOutcomes)
    \/ \E id \in FileIds, ms \in StreamMessageLists,
          outUrl \in SignedUrlOutcomes, outChat \in ChatOutcomes :
          query_document_conversation(1, id, ms, outUrl, outChat)
    \/ \E id \in FileIds, q \in Questions, h \in Histories,
          outUrl \in SignedUrlOutcomes, outStream \in StreamOutcomes :
          query_document_stream(1, id, q, h, outUrl, outStream)
    \/ \E id \in FileIds, ms \in StreamMessageLists,
          outUrl \in SignedUrlOutcomes, outStream \in StreamOutcomes :
          query_document_conversation_stream(1, id, ms, outUrl, outStream)
    \/ StreamSteps(1, {Ok([data |-> [choices |-> <<[delta |-> [content |-> "Hi"]]>>]]),
                        Raise([kind |-> "unavailable", msg |-> "service unavailable"]),
                        EndOfStream})

Spec == Init /\ [][Next]_vars

\* the utility functions applied to every input of their domains
NextUtils ==
    \/ \E f \in UtilFilenames, n \in UtilContentLens, m \in MaxSizesMb :
           validate_upload(1, f, n, m)
    \/ \E f \in UtilFilenames, m \in MaxSizesMb : FileValidator_validate_pdf(1, f, m)
    \/ \E n \in UtilContentLens, m \in MaxSizesMb :
           FileValidator_validate_file_size(1, n, m)
    \/ \E id \in UtilFileIds : FileValidator_validate_file_id(1, id)
    \/ \E f \in UtilFileObjs : ResponseFormatter_format_file_metadata(1, f)
    \/ \E ps \in UtilPageLists : ResponseFormatter_format_ocr_pages(1, ps)
    \/ \E c \in ChatObjs, id \in PathFileIds, q \in Questions :
           ResponseFormatter_format_qa_response(1, c, id, q)

SpecUtils == Init /\ [][NextUtils]_vars

(* ------------------------------- claims -------------------------------- *)

StreamEndpoints == {"query_document_stream", "query_document_conversation_stream"}

\* positions of a streaming response whose generator exists
GenPcs == {"gen_created", "gen_run", "gen_yield", "gen_suspended",
           "gen_yield_done", "gen_suspended_done", "gen_closed", "gen_error",
           "gen_abandoned"}

\* the text content of an increment, "" when it has none
IncrementText(chunk) ==
    IF chunk.data.choices = <<>> THEN ""
    ELSE getattr(chunk.data.choices[1].delta, "content", "")

\* one content event per increment with non-empty text, in arrival order
RECURSIVE ExpectedEvents(_)
ExpectedEvents(chunks) ==
    IF chunks = <<>> THEN <<>>
    ELSE (IF IncrementText(Head(chunks)) # ""
          THEN <<[content |-> IncrementText(Head(chunks))]>> ELSE <<>>)
         \o ExpectedEvents(Tail(chunks))

DoneCount(evs) == Cardinality({i \in 1..Len(evs) : evs[i] = [done |-> TRUE]})

\* C1: when the upstream stream ended without failure, the events emitted are
\* exactly the non-empty text contents of the increments read, one event per
\* increment in arrival order, followed by exactly one completion event with
\* nothing after it; before that, the events are the contents read so far
C1_StreamEvents ==
    \A r \in Slots :
        pc[r] \in GenPcs =>
            /\ upstream[r] = "exhausted" /\ pc[r] # "gen_yield_done" =>
                  events[r] = ExpectedEvents(received[r]) \o <<[done |-> TRUE]>>
            /\ upstream[r] = "open" /\ pc[r] # "gen_yield" =>
                  events[r] = ExpectedEvents(received[r])
            /\ DoneCount(events[r]) <= 1
            /\ \A i \in 1..Len(events[r]) :
                  events[r][i] = [done |-> TRUE] => i = Len(events[r])

\* C1 witness: /qa/stream relayed "Hi", an empty increment and " there" and
\* completed with two content events and the completion event
C1_Witness ==
    \E r \in Slots :
        /\ req[r].ep = "query_document_stream"
        /\ pc[r] = "gen_closed"
        /\ Len(received[r]) = 3
        /\ IncrementText(received[r][2]) = ""
        /\ events[r] = <<[content |-> "Hi"], [content |-> " there"], [done |-> TRUE]>>

\* C2: a stream that failed while being consumed carries no completion event,
\* a completion event is only emitted after normal exhaustion, and after the
\* failure nothing more is read from, or emitted for, that stream
C2_FailureNoDone ==
    /\ [](\A r \in Slots :
             /\ upstream[r] = "failed" =>
                   /\ DoneCount(events[r]) = 0
                   /\ pc[r] = "gen_error"
             /\ DoneCount(events[r]) > 0 => upstream[r] = "exhausted")
    /\ [][\A r \in Slots :
             upstream[r] = "failed" /\ upstream'[r] = "failed" =>
                 /\ received'[r] = received[r]
                 /\ events'[r] = events[r]
                 /\ calls'[r] = calls[r]]_vars

\* C2 witness: the stream failed after a content event had been emitted
C2_Witness ==
    \E r \in Slots :
        /\ upstream[r] = "failed"
        /\ pc[r] = "gen_error"
        /\ Len(events[r]) > 0

\* C3 (as claimed): once the disconnect of the consumer is observed, nothing
\* more is read from the upstream stream, nothing more is emitted, and the
\* upstream stream is closed
C3_DisconnectReleases ==
    /\ [](\A r \in Slots : pc[r] = "gen_abandoned" => upstream[r] = "closed")
    /\ [][\A r \in Slots :
             pc[r] = "gen_abandoned" /\ pc'[r] = "gen_abandoned" =>
                 /\ received'[r] = received[r]
                 /\ events'[r] = events[r]]_vars

ConversationEndpoints ==
    {"query_document_conversation", "query_document_conversation_stream"}

\* the turns of an optional conversation history
HistoryTurns(h) == IF h = None THEN <<>> ELSE h[1]

\* C4 (as claimed): on both conversation endpoints a message list whose last
\* turn is not a user turn is answered 400 and causes no provider call
C4_LastTurnNotUserIs400 ==
    \A r \in Slots :
        /\ mistral_service
        /\ pc[r] # "idle"
        /\ req[r].ep \in ConversationEndpoints
        /\ req[r].messages # <<>>
        /\ req[r].messages[Len(req[r].messages)].role # "user"
        => /\ resp[r].status = 400
           /\ calls[r] = <<>>

\* C5 (as claimed): when the last turn is a user turn, its content is passed
\* to the adapter as the question and every earlier turn, unchanged and in
\* order, as the history
C5_AllEarlierTurnsPassed ==
    \A r \in Slots :
        /\ mistral_service
        /\ pc[r] # "idle"
        /\ req[r].ep \in ConversationEndpoints
        /\ req[r].messages # <<>>
        /\ req[r].messages[Len(req[r].messages)].role = "user"
        => /\ adapter[r] # None
           /\ adapter[r][1].question = req[r].messages[Len(req[r].messages)].content
           /\ HistoryTurns(adapter[r][1].conversation_history)
                = AllButLast(req[r].messages)

\* C5 (amended): when the last turn is a user turn with non-empty content,
\* its content is passed to the adapter as the question, and the history
\* passed is the earlier turns whose role is user or assistant, unchanged and
\* in order; a user turn with empty content reaches no adapter operation
C5_UserAssistantTurnsPassed ==
    \A r \in Slots :
        /\ mistral_service
        /\ pc[r] # "idle"
        /\ req[r].ep \in ConversationEndpoints
        /\ req[r].messages # <<>>
        /\ req[r].messages[Len(req[r].messages)].role = "user"
        => LET last == req[r].messages[Len(req[r].messages)]
               earlier == AllButLast(req[r].messages)
               kept == {i \in 1..Len(earlier) : earlier[i].role \in {"user", "assistant"}}
               hist == HistoryTurns(adapter[r][1].conversation_history)
           IN IF last.content = "" THEN adapter[r] = None /\ calls[r] = <<>>
              ELSE /\ adapter[r] # None
                   /\ adapter[r][1].question = last.content
                   /\ Len(hist) = Cardinality(kept)
                   /\ \A i \in kept :
                         hist[Cardinality({j \in kept : j <= i})] = earlier[i]

\* C5 witness: both endpoints derived question "B" and the two-turn history
\* from [user "A", assistant "B", user "B"]
C5_Witness ==
    \E r \in Slots :
        /\ req[r].ep = "query_document_conversation_stream"
        /\ req[r].messages = <<[role |-> "user", content |-> "A"],
                               [role |-> "assistant", content |-> "B"],
                               [role |-> "user", content |-> "B"]>>
        /\ adapter[r] # None
        /\ adapter[r][1].question = "B"
        /\ Len(HistoryTurns(adapter[r][1].conversation_history)) = 2

\* C6 (as claimed): an upload call never ends with the staging file it
\* created still existing
C6_StagingFileDeleted ==
    [][\A r \in Slots :
          /\ pc[r] # "done"
          /\ pc'[r] = "done"
          /\ req'[r].ep = "upload_document"
          /\ tmp'[r] # 0
          => tmp'[r] \notin fs']_vars

\* a filename that ends in .pdf, in any letter case
IsPdfName(f) ==
    /\ Len(f) >= 4
    /\ f[Len(f) - 3] = "."
    /\ f[Len(f) - 2] \in {"p", "P"}
    /\ f[Len(f) - 1] \in {"d", "D"}
    /\ f[Len(f)] \in {"f", "F"}

\* the upload in slot r fails validation: filename missing or not .pdf, or
\* content read and empty or over the ceiling of 50 * 1,048,576 bytes
UploadInvalid(r) ==
    \/ ~IsPdfName(req[r].filename)
    \/ /\ content[r] # None
       /\ (content[r][1] = 0 \/ content[r][1] > 52428800)

\* C7: with the adapter initialised, an upload that fails validation is
\* answered 400 with no provider call and no staging file, an upload whose
\* provider call fails is answered 500, and 400 is answered for validation
\* failures only (never replaced by a 500)
C7_UploadStatus ==
    \A r \in Slots :
        mistral_service /\ req[r].ep = "upload_document" /\ pc[r] = "done" =>
            /\ UploadInvalid(r) =>
                  /\ resp[r].status = 400
                  /\ calls[r] = <<>>
                  /\ tmp[r] = 0
            /\ resp[r].status = 400 => UploadInvalid(r)
            /\ calls[r] # <<>> /\ calls[r][1].raised # None => resp[r].status = 500

\* C7 witness: an upload of a .pdf whose content is one byte over the ceiling
\* was answered 400
C7_Witness ==
    \E r \in Slots :
        /\ mistral_service
        /\ req[r].ep = "upload_document"
        /\ pc[r] = "done"
        /\ IsPdfName(req[r].filename)
        /\ content[r] = Some(52428801)
        /\ resp[r].status = 400

\* endpoints that take a document identifier
IdEndpoints ==
    {"retrieve_document", "delete_document", "get_signed_url", "query_ocr",
     "query_document", "query_document_conversation", "query_document_stream",
     "query_document_conversation_stream"}

\* C8 (as claimed): a request whose identifier is empty or shorter than 10
\* characters never causes a provider call
C8_ShortIdNoProviderCall ==
    \A r \in Slots :
        req[r].ep \in IdEndpoints /\ Len(req[r].file_id) < 10 => calls[r] = <<>>

ProviderEndpoints == IdEndpoints \cup {"upload_document", "list_documents"}

\* C9: when the adapter failed to initialise, every request to a
\* provider-backed endpoint is answered with the fixed 500 error and makes no
\* provider call; /health reports the initialisation state; and that state
\* never changes
C9_NotInitialized ==
    /\ [](\A r \in Slots :
             /\ ~mistral_service /\ req[r].ep \in ProviderEndpoints =>
                   /\ pc[r] = "done"
                   /\ resp[r] = [status |-> 500,
                                 detail |-> "mistral service not initialized",
                                 body |-> <<>>]
                   /\ calls[r] = <<>>
                   /\ fs = {}
             /\ req[r].ep = "health_check" =>
                   /\ resp[r].status = 200
                   /\ resp[r].body.mistral_service_initialized = mistral_service)
    /\ [][mistral_service' = mistral_service]_vars

\* C9 witness: without the adapter, a delete request was answered with the
\* fixed 500 error
C9_Witness ==
    \E r \in Slots :
        /\ ~mistral_service
        /\ req[r].ep = "delete_document"
        /\ resp[r].status = 500
        /\ resp[r].detail = "mistral service not initialized"

\* the text each handler puts before the message of the exception it caught
ErrorPrefix(ep) ==
    CASE ep = "upload_document" -> "failed to upload file: "
      [] ep = "list_documents" -> "failed to list files: "
      [] ep = "retrieve_document" -> "file not found: "
      [] ep = "delete_document" -> "failed to delete file: "
      [] ep = "get_signed_url" -> "failed to get signed url: "
      [] ep = "query_ocr" -> "failed to process ocr: "
      [] ep \in {"query_document", "query_document_conversation"} ->
            "failed to query document: "
      [] OTHER -> "failed to stream query: "

\* C10 (as claimed): a provider call that raised is answered 500 with the
\* provider's message, on every endpoint; GET /documents/{id} answers 404 only
\* when the provider reported the identifier as unknown
C10_ProviderFailureIs500 ==
    \A r \in Slots :
        pc[r] = "done" /\ calls[r] # <<>> =>
            LET last == calls[r][Len(calls[r])] IN
            /\ last.raised # None =>
                  IF req[r].ep = "retrieve_document" /\ last.raised[1].kind = "not_found"
                  THEN resp[r].status = 404
                  ELSE /\ resp[r].status = 500
                       /\ resp[r].detail = ErrorPrefix(req[r].ep) \o last.raised[1].msg
            /\ req[r].ep = "retrieve_document" /\ resp[r].status = 404 =>
                  /\ last.raised # None
                  /\ last.raised[1].kind = "not_found"

\* the provider call of each endpoint that makes exactly one
SingleCallOp(ep) ==
    CASE ep = "list_documents" -> "files.list"
      [] ep = "retrieve_document" -> "files.retrieve"
      [] ep = "delete_document" -> "files.delete"
      [] ep = "get_signed_url" -> "files.get_signed_url"
      [] OTHER -> "files.upload"

\* the provider call each OCR or Q&A endpoint makes after the signed-URL call
SecondCallOp(ep) ==
    CASE ep = "query_ocr" -> "ocr.process"
      [] ep \in {"query_document", "query_document_conversation"} -> "chat.complete"
      [] OTHER -> "chat.stream"

\* slot r holds a request to a provider-backed endpoint whose handler has
\* made all its provider calls
Handled(r) ==
    /\ mistral_service
    /\ req[r].ep \in ProviderEndpoints
    /\ pc[r] \notin {"idle", "up_read", "up_stage", "up_send"}

\* C11 (as claimed): no request causes two or more provider calls
C11_SingleProviderCall ==
    \A r \in Slots : Handled(r) => Len(calls[r]) <= 1

\* C11 (amended): list, retrieve, delete and signed-url make exactly one
\* provider call and upload at most one (exactly one when it succeeds); the
\* OCR, Q&A, conversation and streaming endpoints make a signed-URL call
\* followed, only when that call returned, by exactly one OCR or chat call,
\* and none when the conversation is rejected
C11_ProviderCallsPerRequest ==
    \A r \in Slots :
        Handled(r) =>
            LET ep == req[r].ep
                cs == calls[r]
            IN IF ep \in {"list_documents", "retrieve_document", "delete_document",
                          "get_signed_url"}
               THEN Len(cs) = 1 /\ cs[1].op = SingleCallOp(ep)
               ELSE IF ep = "upload_document"
               THEN /\ Len(cs) <= 1
                    /\ \A i \in 1..Len(cs) : cs[i].op = "files.upload"
                    /\ pc[r] = "done" /\ resp[r].status = 200 => Len(cs) = 1
               ELSE IF ep \in ConversationEndpoints /\ adapter[r] = None
               THEN cs = <<>>
               ELSE /\ Len(cs) \in {1, 2}
                    /\ cs[1].op = "files.get_signed_url"
                    /\ Len(cs) = 1 <=> cs[1].raised # None
                    /\ Len(cs) = 2 => cs[2].op = SecondCallOp(ep)

\* C11 witness: an OCR request answered 200 after a signed-URL call and an
\* OCR call
C11_Witness ==
    \E r \in Slots :
        /\ req[r].ep = "query_ocr"
        /\ resp[r].status = 200
        /\ Len(calls[r]) = 2
        /\ calls[r][2].op = "ocr.process"

\* slot r holds a finished call of the utility function fn
UtilCall(r, fn) == pc[r] = "done" /\ req[r].ep = fn

\* the reason of the too-large rule for a maximum of m megabytes
TooLarge(m) == "file size exceeds " \o ToString(m) \o "mb limit"

\* the reason of the first rule of section 4.1 that the candidate upload
\* fails, in the order missing filename, not PDF, empty, too large
FirstFailingRule(f, n, m) ==
    IF f = <<>> THEN "filename is required"
    ELSE IF ~IsPdfName(f) THEN "only pdf files are supported"
    ELSE IF n = 0 THEN "file is empty"
    ELSE IF n > m * 1048576 THEN TooLarge(m)
    ELSE ""

\* C12: for every candidate upload and every configured maximum, validation
\* reports the reason of the first failing rule in the order missing
\* filename, not PDF, empty, too large
C12_FirstFailingRule ==
    \A r \in Slots :
        UtilCall(r, "validate_upload") =>
            LET why == FirstFailingRule(req[r].filename, req[r].size, req[r].max_size_mb)
            IN resp[r].body = <<why = "", why>>

C14_PdfExtension ==
    \A r \in Slots :
        UtilCall(r, "validate_pdf") =>
            LET f == req[r].filename IN
            resp[r].body = IF f = <<>> THEN <<FALSE, "filename is required">>
                           ELSE IF IsPdfName(f) THEN <<TRUE, "">>
                           ELSE <<FALSE, "only pdf files are supported">>

\* C14 witness: a filename ending in an upper-case .PDF passed
C14_Witness ==
    \E r \in Slots :
        /\ UtilCall(r, "validate_pdf")
        /\ req[r].filename = <<"A", ".", "P", "D", "F">>
        /\ resp[r].body = <<TRUE, "">>

\* C15 (as claimed): every identifier shorter than 10 characters, the
\* empty one included, fails with the invalid-identifier reason, and every
\* identifier of 10 or more characters passes
C15_ShortIdInvalid ==
    \A r \in Slots :
        UtilCall(r, "validate_file_id") =>
            resp[r].body = IF Len(req[r].file_id) < 10
                           THEN <<FALSE, "invalid file_id format">>
                           ELSE <<TRUE, "">>

\* C15 (amended): the empty identifier fails with the reason "file_id is
\* required", every identifier of 1 to 9 characters fails with the reason
\* "invalid file_id format", and every identifier of 10 or more passes
C15_FileIdReasons ==
    \A r \in Slots :
        UtilCall(r, "validate_file_id") =>
            resp[r].body = IF req[r].file_id = ""
                           THEN <<FALSE, "file_id is required">>
                           ELSE IF Len(req[r].file_id) < 10
                           THEN <<FALSE, "invalid file_id format">>
                           ELSE <<TRUE, "">>

\* C15 witness: an identifier of exactly 10 characters passed
C15_Witness ==
    \E r \in Slots :
        /\ UtilCall(r, "validate_file_id")
        /\ Len(req[r].file_id) = 10
        /\ resp[r].body = <<TRUE, "">>

\* the attributes of a provider file object that may be absent, with the
\* default documented for each
OptionalFileAttrs ==
    [sample_type |-> "ocr_input", num_lines |-> 0, mimetype |-> "application/pdf",
     source |-> "upload", signature |-> "", deleted |-> FALSE]

HasRequiredFileAttrs(f) ==
    \A i \in 1..Len(RequiredFileAttrs) : RequiredFileAttrs[i] \in DOMAIN f

\* C16: format_file_metadata, given a provider file object with its
\* required attributes, does not fail, reproduces each attribute that is
\* present and yields the documented default for each optional attribute
\* that is absent
C16_FileMappingDefaults ==
    \A r \in Slots :
        UtilCall(r, "format_file_metadata") /\ HasRequiredFileAttrs(req[r].arg) =>
            LET f == req[r].arg
                out == resp[r].body
            IN /\ out.ok
               /\ \A a \in DOMAIN f : out.value[a] = f[a]
               /\ \A a \in DOMAIN OptionalFileAttrs \ DOMAIN f :
                      out.value[a] = OptionalFileAttrs[a]

\* the output page of a provider page: index and text unchanged, the image
\* payload only when the provider gave a non-empty value
ExpectedOcrPage(page) ==
    [index |-> page.index,
     markdown |-> page.markdown,
     image_base64 |-> IF hasattr(page, "image_base64") /\ page.image_base64 # ""
                      THEN Some(page.image_base64) ELSE None]

\* C17: the OCR result of POST /ocr/query has one page per provider page,
\* in the provider's order, with index and text unchanged, and a page
\* carries an image payload only when the provider gave a non-empty value
C17_OcrPages ==
    \A r \in Slots :
        /\ pc[r] = "done"
        /\ req[r].ep = "query_ocr"
        /\ resp[r].status = 200
        => LET given == calls[r][2].returned[1].pages
               pages == resp[r].body.pages
           IN /\ Len(pages) = Len(given)
              /\ \A i \in 1..Len(given) : pages[i] = ExpectedOcrPage(given[i])

\* slot r holds a finished POST /qa/query whose chat call returned
QaAnswered(r) ==
    /\ pc[r] = "done"
    /\ req[r].ep = "query_document"
    /\ Len(calls[r]) = 2
    /\ calls[r][2].returned # None

\* C18: the Q&A result takes the first choice's message text as the
\* answer, copies the three usage counters unchanged and echoes the
\* request's file id and question; a provider response without a usage
\* object makes the call fail with an error and no result
C18_QaMapping ==
    \A r \in Slots :
        QaAnswered(r) =>
            LET chat_response == calls[r][2].returned[1] IN
            /\ hasattr(chat_response, "usage") /\ chat_response.choices # <<>> =>
                   /\ resp[r].status = 200
                   /\ resp[r].body.answer = chat_response.choices[1].message.content
                   /\ resp[r].body.usage.prompt_tokens = chat_response.usage.prompt_tokens
                   /\ resp[r].body.usage.completion_tokens
                          = chat_response.usage.completion_tokens
                   /\ resp[r].body.usage.total_tokens = chat_response.usage.total_tokens
                   /\ resp[r].body.file_id = req[r].file_id
                   /\ resp[r].body.question = req[r].question
            /\ ~hasattr(chat_response, "usage") =>
                   /\ resp[r].status = 500
                   /\ resp[r].body = <<>>

\* C18 witness: a Q&A answered 200 from a provider response with two
\* choices whose total counter is not the sum of the other two
C18_Witness ==
    \E r \in Slots :
        /\ QaAnswered(r)
        /\ resp[r].status = 200
        /\ Len(calls[r][2].returned[1].choices) = 2
        /\ resp[r].body.usage.total_tokens
               # resp[r].body.usage.prompt_tokens + resp[r].body.usage.completion_tokens

\* slot r holds a request whose adapter Q&A operation made its chat call
ChatCalled(r) ==
    /\ adapter[r] # None
    /\ Len(calls[r]) = 2
    /\ calls[r][2].op \in {"chat.complete", "chat.stream"}

\* C19: the message list sent to the chat capability, by the blocking and by
\* the streaming operation alike, is the history turns unchanged in order
\* (none for an absent or an empty history) followed by exactly one user
\* turn holding the question text and the document's signed URL
C19_MessageList ==
    \A r \in Slots :
        ChatCalled(r) =>
            LET a == adapter[r][1]
                turns == HistoryTurns(a.conversation_history)
                url == calls[r][1].returned[1].url
                messages == calls[r][2].args.messages
                last == messages[Len(messages)]
            IN /\ calls[r][2].op = IF a.op = "query_document"
                                   THEN "chat.complete" ELSE "chat.stream"
               /\ Len(messages) = Len(turns) + 1
               /\ \A i \in 1..Len(turns) : messages[i] = turns[i]
               /\ last.role = "user"
               /\ last.content = <<[type |-> "text", text |-> a.question],
                                   [type |-> "document_url", document_url |-> url]>>

\* C19 witness: the streaming operation sent a history of two turns followed
\* by the new user turn
C19_Witness ==
    \E r \in Slots :
        /\ ChatCalled(r)
        /\ adapter[r][1].op = "query_document_streaming"
        /\ Len(HistoryTurns(adapter[r][1].conversation_history)) = 2
        /\ Len(calls[r][2].args.messages) = 3

\* the content events among the events handed to the consumer
ContentCount(evs) == Len(evs) - DoneCount(evs)

\* content events of the increments read that were not yet handed over
Pending(r) == Len(ExpectedEvents(received[r])) - ContentCount(events[r])

\* C20: the relay holds no buffer: at every moment at most one content
\* event is read from upstream but not yet handed to the consumer, and an
\* increment is read only when none is
C20_NoBuffering ==
    /\ [](\A r \in Slots : pc[r] \in GenPcs => Pending(r) \in {0, 1})
    /\ [][\A r \in Slots :
              pc[r] \in GenPcs /\ Len(received'[r]) > Len(received[r])
              => Pending(r) = 0]_vars

\* C20 witness: a second increment with content was read after the event of
\* the first had been handed over, and its own event is not yet emitted
C20_Witness ==
    \E r \in Slots :
        /\ pc[r] = "gen_yield"
        /\ Len(events[r]) = 1
        /\ Len(ExpectedEvents(received[r])) = 2

\* the upload call in slot r holds a staging file it has yet to release
Staging(r) ==
    /\ req[r].ep = "upload_document"
    /\ pc[r] \in {"up_send", "up_finally"}

\* C21: under any interleaving of upload calls, the staging files of two
\* calls are different files, a call's staging file exists and stays
\* untouched until that call itself steps, the file a call creates is never
\* one another call is staging, a call uploads from its own file, and no
\* step changes the adapter handle or another call's variables
C21_OwnStagingFile ==
    /\ [](\A r \in Slots :
              Staging(r) =>
                  /\ tmp[r] \in fs
                  /\ \A q \in Slots \ {r} : Staging(q) => tmp[q] # tmp[r])
    /\ [][/\ mistral_service' = mistral_service
          /\ \A r \in Slots :
                 /\ Staging(r) /\ pc'[r] = pc[r] =>
                        /\ tmp[r] \in fs'
                        /\ tmp'[r] = tmp[r]
                        /\ content'[r] = content[r]
                        /\ uploaded'[r] = uploaded[r]
                        /\ calls'[r] = calls[r]
                 /\ Staging(r) =>
                        \A q \in Slots \ {r} : tmp'[q] # tmp[q] => tmp'[q] # tmp[r]
                 /\ pc[r] = "up_send" /\ calls'[r] # calls[r] =>
                        /\ Len(calls'[r]) = 1
                        /\ calls'[r][1].args.file.content = tmp[r]]_vars

\* C21 witness: two upload calls hold their staging files at once, one
\* about to upload from its file and one about to delete its own
C21_Witness ==
    \E r \in Slots, q \in Slots :
        /\ r # q
        /\ Staging(r) /\ pc[r] = "up_send"
        /\ Staging(q) /\ pc[q] = "up_finally"
        /\ {tmp[r], tmp[q]} \subseteq fs

\* slot r holds a finished GET /documents/ that called the provider
Listed(r) ==
    /\ pc[r] = "done"
    /\ req[r].ep = "list_documents"
    /\ Len(calls[r]) = 1

\* the entries of a files.list response (none when it has no data)
ListEntries(files) == IF hasattr(files, "data") THEN files.data ELSE <<>>

\* the record of one list entry: each attribute present unchanged, a byte
\* count of 0 and the documented defaults for the absent ones
ExpectedListRecord(f) ==
    [a \in DOMAIN OptionalFileAttrs \cup {"bytes"} \cup DOMAIN f |->
        IF a \in DOMAIN f THEN f[a]
        ELSE IF a = "bytes" THEN 0 ELSE OptionalFileAttrs[a]]

\* C22: GET /documents/ returns one mapped record per entry of the
\* provider's list, in the provider's order, with total equal to the number
\* of records, or, when the provider call raises or an entry cannot be
\* mapped, answers 500 without any list
C22_ListAllOrNothing ==
    \A r \in Slots :
        Listed(r) =>
            IF calls[r][1].raised # None
            THEN resp[r].status = 500 /\ resp[r].body = <<>>
            ELSE LET entries == ListEntries(calls[r][1].returned[1]) IN
                 IF \A i \in 1..Len(entries) : HasRequiredFileAttrs(entries[i])
                 THEN /\ resp[r].status = 200
                      /\ Len(resp[r].body.files) = Len(entries)
                      /\ resp[r].body.total = Len(entries)
                      /\ \A i \in 1..Len(entries) :
                             resp[r].body.files[i] = ExpectedListRecord(entries[i])
                 ELSE resp[r].status = 500 /\ resp[r].body = <<>>

\* C22 witness: a list of two entries answered 200 with two records, the
\* first mapped from an entry without optional attributes
C22_Witness ==
    \E r \in Slots :
        /\ Listed(r)
        /\ resp[r].status = 200
        /\ resp[r].body.total = 2
        /\ resp[r].body.files[1].mimetype = "application/pdf"
        /\ resp[r].body.files[2].mimetype = "text/plain"

\* slot r holds a finished DELETE /documents/{id} that called the provider
DeleteCalled(r) ==
    /\ pc[r] = "done"
    /\ req[r].ep = "delete_document"
    /\ Len(calls[r]) = 1

\* C23: DELETE /documents/{id} answers with deleted = true and the
\* request's own id whenever the provider's delete call returned, whatever
\* its response says, and answers 500 whenever the call raised
C23_DeleteAlwaysDeleted ==
    \A r \in Slots :
        DeleteCalled(r) =>
            IF calls[r][1].raised = None
            THEN /\ resp[r].status = 200
                 /\ resp[r].body.deleted = TRUE
                 /\ resp[r].body.id = req[r].file_id
            ELSE resp[r].status = 500 /\ resp[r].body = <<>>

\* C23 witness: the provider reported the file as not deleted, under an id
\* other than the request's, and the answer says deleted with the request's id
C23_Witness ==
    \E r \in Slots :
        /\ DeleteCalled(r)
        /\ calls[r][1].returned # None
        /\ calls[r][1].returned[1].deleted = FALSE
        /\ calls[r][1].returned[1].id # req[r].file_id
        /\ resp[r].body.deleted = TRUE
        /\ resp[r].body.id = req[r].file_id

=============================================================================
